---- MODULE Spec2Model ----
(***************************************************************************)
(* video-compressor (src/main.rs): a batch re-encoder that walks a root,   *)
(* hands every eligible video file to ffmpeg, replaces the original with   *)
(* the output through `mv`, and remembers the processed files in           *)
(* <root>/compression_log.json.                                            *)
(*                                                                         *)
(* A path is a sequence of tokens ("r", "/", "a", ".mp4", "_x265"); the    *)
(* tokens are cut where the program's suffix tests cut a file name.        *)
(***************************************************************************)
EXTENDS Integers, Sequences, FiniteSets, TLC

\* ------------------------------------------------------------------ bounds
\* Invocations of the program in one behaviour.
MaxRuns == 2
\* The wall clock (seconds since the epoch) runs from 1 to MaxClock.
MaxClock == 2
\* Failures of the environment (a file that cannot be opened, a child that cannot be
\* started, the process terminated, ...) in one behaviour.
MaxFaults == 2

\* Sizes the encoder's output file can have.
OutSizes == {2}

\* ------------------------------------------------------ the file tree
MP4 == <<".mp4">>
MOV == <<".mov">>
\* the literal "_x265.mp4"
X265 == <<"_x265", ".mp4">>

RootDir == <<"r">>
SubDir == <<"r", "/", "s">>
FileA == <<"r", "/", "a", ".mp4">>
FileB == <<"r", "/", "s", "/", "b", ".mov">>
FileN == <<"r", "/", "n", ".txt">>
\* a file of the working directory, named without any directory
FileC == <<"c", ".mp4">>

Dirs == {RootDir, SubDir}
SrcFiles == {FileA, FileB, FileN, FileC}

\* process_file: dest_path_buf = the path with "_x265.mp4" appended to its file name
dest_path(path) == path \o X265

AllFiles == SrcFiles \cup {dest_path(f) : f \in SrcFiles}
\* The roots the program is started on: a directory, or a single file.
Roots == {RootDir, FileA, FileN, FileC}

\* PathBuf::parent: the path without its last component; the empty path for a
\* path of one relative component.
Parent(p) ==
    IF \A k \in 1..Len(p) : p[k] # "/"
    THEN <<>>
    ELSE LET i == CHOOSE k \in 1..Len(p) :
                      p[k] = "/" /\ \A j \in (k + 1)..Len(p) : p[j] # "/"
         IN  SubSeq(p, 1, i - 1)

\* Log::new: path + "/compression_log.json"
Log_path(path) == path \o <<"/", "compression_log.json">>

\* main: the save_file of the Log it builds for root r.
save_file(r) == IF r \in Dirs THEN Log_path(r) ELSE Log_path(Parent(r))

\* The files the environment modifies.
TouchFiles == {FileA}

\* What metadata()/modified()/duration_since(UNIX_EPOCH) yield for an entry.
MetaKinds == {"ok", "nometa", "nomtime", "preepoch"}

Absent == [ex |-> FALSE, mtime |-> 0, len |-> 0, kind |-> "none", meta |-> "ok"]

OrigLen(f) == IF f = FileA THEN 5 ELSE IF f = FileB THEN 7 ELSE 3

\* ------------------------------------------------------------ the Log
EmptyMap == [x \in {} |-> 0]

Insert(m, k, v) == [x \in DOMAIN m \cup {k} |-> IF x = k THEN v ELSE m[x]]

EmptyLog == [shrunk_files |-> EmptyMap, added_files |-> EmptyMap, skipped_files |-> EmptyMap]

\* str::ends_with
ends_with(s, t) == Len(s) >= Len(t) /\ SubSeq(s, Len(s) - Len(t) + 1, Len(s)) = t

filetype_check(path) ==
    /\ (ends_with(path, MP4) \/ ends_with(path, MOV))
    /\ ~(ends_with(path, MP4 \o X265) \/ ends_with(path, MOV \o X265))

\* A slip of is_already_processed: > for >=.
is_already_processed_strict(l, path, modified_time) ==
    /\ path \in DOMAIN l.shrunk_files
    /\ l.shrunk_files[path].modified > modified_time

is_already_processed(l, path, modified_time) ==
    /\ path \in DOMAIN l.shrunk_files
    /\ l.shrunk_files[path].modified >= modified_time

\* A slip of mark_processed: the record goes to added_files only.
mark_processed_added_only(l, path, prev, post, now) ==
    LET file_log == [size_prev |-> prev, size_post |-> post, modified |-> now]
    IN  [l EXCEPT !.added_files = Insert(@, path, file_log)]

mark_processed(l, path, prev, post, now) ==
    LET file_log == [size_prev |-> prev, size_post |-> post, modified |-> now]
    IN  [l EXCEPT !.shrunk_files = Insert(@, path, file_log),
                  !.added_files = Insert(@, path, file_log)]

mark_skipped(l, path, reason) == [l EXCEPT !.skipped_files = Insert(@, path, reason)]

RECURSIVE SumField(_, _, _)
SumField(m, S, field) ==
    IF S = {} THEN 0
    ELSE LET k == CHOOSE x \in S : TRUE
         IN  m[k][field] + SumField(m, S \ {k}, field)

\* print_status: the totals it prints, and the log it leaves.
status_totals(l) ==
    [prev |-> SumField(l.added_files, DOMAIN l.added_files, "size_prev"),
     post |-> SumField(l.added_files, DOMAIN l.added_files, "size_post")]

\* A slip of print_status: the skips are printed and kept.
print_status_keeps_skips(l) == [l EXCEPT !.added_files = EmptyMap]

print_status(l) == [l EXCEPT !.added_files = EmptyMap, !.skipped_files = EmptyMap]

\* serde: every field of Log but save_file is written.
Serialize(l) ==
    [shrunk_files |-> l.shrunk_files, added_files |-> l.added_files,
     skipped_files |-> l.skipped_files]

VARIABLES
    root,      \* the argument of the program
    fs,        \* the files: path -> [ex, mtime, len, kind, meta]
    disk,      \* the file at save_file(root): [st: "missing" | "trunc" | "ok", data]
    mvs,       \* the `mv` children spawned and not yet finished (by target path)
    clock,     \* SystemTime::now(), in seconds
    run,       \* the number of the invocation
    faults,    \* the failures of the environment so far
    pc,        \* where the invocation is
    ret,       \* where save() returns to
    log,       \* the Log in memory
    stack,     \* iterate_dir: the entries each open read_dir has yet to yield
    job,       \* process_file's result on its way to mark_processed
    launched,  \* history: the paths ffmpeg was spawned for in this invocation
    marked,    \* history: path -> sizes, the jobs that succeeded in this invocation
    persisted, \* history: the paths of marked a completed save() has written
    savefail,  \* history: a save() of this invocation could not create or write the file
    failed,    \* history: the paths whose job returned Err in this invocation
    touched,   \* history: the files modified from outside since this invocation began
    reported,  \* the totals print_status printed in this invocation
    prev,      \* history: the previous invocation
    stream,    \* compress: what ffmpeg has yet to write to its stderr
    buffer,    \* compress: the text read and not yet matched
    display    \* compress: the timestamps the progress line has shown

vars == <<root, fs, disk, mvs, clock, run, faults, pc, ret, log, stack, job, launched,
          marked, persisted, savefail, failed, touched, reported, prev, stream, buffer,
          display>>

NoJob == [path |-> <<>>, prev_size |-> 0, post_size |-> 0]
NoReport == [done |-> FALSE, prev |-> 0, post |-> 0]
NoPrev ==
    [ended |-> "none", marked |-> {}, persisted |-> {}, failed |-> {}, touched |-> {},
     faults |-> 0]

Running == {"start", "walk", "compress", "mark", "save", "write", "report", "report_ret"}

Init ==
    /\ root \in Roots
    /\ \E ma \in MetaKinds :
         fs = [p \in AllFiles |->
                 IF p \in SrcFiles
                 THEN [ex |-> TRUE, mtime |-> 1, len |-> OrigLen(p), kind |-> "orig",
                       meta |-> IF p = FileA THEN ma ELSE "ok"]
                 ELSE Absent]
    /\ disk = [st |-> "missing", data |-> EmptyLog]
    /\ mvs = {}
    /\ clock = 1
    /\ run = 1
    /\ faults = 0
    /\ pc = "start"
    /\ ret = "done"
    /\ log = EmptyLog
    /\ stack = <<>>
    /\ job = NoJob
    /\ launched = {}
    /\ marked = EmptyMap
    /\ persisted = {}
    /\ savefail = FALSE
    /\ failed = {}
    /\ touched = {}
    /\ reported = NoReport
    /\ prev = NoPrev
    /\ stream = <<>>
    /\ buffer = <<>>
    /\ display = <<>>

\* ------------------------------------------------------------ helpers
Top == stack[Len(stack)]
Rest == SubSeq(stack, 1, Len(stack) - 1)

\* The outcomes the environment can give a step: "ok", or one of the failures in S.
Outcomes(S) == IF faults < MaxFaults THEN {"ok"} \cup S ELSE {"ok"}

Fault(o) == faults' = faults + (IF o = "ok" THEN 0 ELSE 1)

\* std::fs::read_dir: the entries of a directory that exist.
read_dir(d) ==
    {p \in AllFiles \cup Dirs : Len(p) > Len(d) /\ Parent(p) = d /\ (p \in Dirs \/ fs[p].ex)}

\* A slip of Log::new: a state file that cannot be opened is read all the same.
Log_new_reads_unopened(o) == IF disk.st = "ok" THEN disk.data ELSE EmptyLog

\* Log::new: the stored log, or a fresh one when the file cannot be opened or parsed.
Log_new(o) == IF o = "ok" /\ disk.st = "ok" THEN disk.data ELSE EmptyLog

\* Where control goes after a job: the loop of iterate_dir, or main's print_status.
AfterJob == IF stack = <<>> THEN "report" ELSE "walk"

\* iterate_dir's first lines: open the directory, or record the skip and return.
iterate_dir(l, frames, d, o) ==
    IF o = "ok"
    THEN [log |-> l, stack |-> frames \o <<read_dir(d)>>]
    ELSE [log |-> mark_skipped(l, d, "ReadDir"), stack |-> frames]

\* The process ends (how: "done", "panicked", "killed"); its memory is gone.
Exit(how) ==
    /\ pc' = how
    /\ ret' = "done"
    /\ log' = EmptyLog
    /\ stack' = <<>>
    /\ job' = NoJob

Ended == pc \in {"done", "panicked", "killed"}

\* save() is called; control then goes to `to`.
CallSave(to) == pc' = "save" /\ ret' = to

\* save() returns to its caller, or the process ends there.
Return ==
    IF ret \in {"done", "panicked"}
    THEN Exit(ret)
    ELSE pc' = ret /\ UNCHANGED <<ret, log, stack, job>>

History == <<launched, marked, persisted, savefail, failed, touched, reported, prev>>
Parser == <<stream, buffer, display>>
World == <<root, fs, disk, mvs, clock, run, Parser>>

\* ------------------------------------------------------------ the program
\* main, up to the first job or the report.
\*   "noopen": compression_log.json cannot be opened or parsed;
\*   "noreaddir": read_dir fails on the root.
Main ==
    /\ pc = "start"
    /\ \E o \in Outcomes({"noopen", "noreaddir"}) :
         LET l0 == Log_new(IF o = "noopen" THEN o ELSE "ok")
             m == fs[root]
         IN  /\ o = "noreaddir" => root \in Dirs
             /\ Fault(o)
             /\ IF root \in Dirs
                THEN LET r == iterate_dir(l0, <<>>, root, IF o = "noreaddir" THEN o ELSE "ok")
                     IN  /\ log' = r.log
                         /\ stack' = r.stack
                         /\ pc' = IF r.stack = <<>> THEN "report" ELSE "walk"
                         /\ UNCHANGED <<ret, job>>
                ELSE /\ stack' = <<>>
                     /\ IF ~m.ex \/ m.meta = "nometa"
                        THEN /\ log' = mark_skipped(l0, root, "Metadata")
                             /\ CallSave("report")
                             /\ UNCHANGED job
                        ELSE IF m.meta = "preepoch"
                        THEN /\ log' = l0
                             /\ CallSave("panicked")
                             /\ UNCHANGED job
                        ELSE IF m.meta = "nomtime"
                        THEN /\ log' = mark_skipped(l0, root, "Metadata")
                             /\ CallSave("report_ret")
                             /\ UNCHANGED job
                        ELSE IF ~is_already_processed(l0, root, m.mtime)
                        THEN /\ log' = l0
                             /\ job' = [path |-> root, prev_size |-> m.len, post_size |-> 0]
                             /\ pc' = "compress"
                             /\ UNCHANGED ret
                        ELSE /\ log' = l0
                             /\ pc' = "report"
                             /\ UNCHANGED <<ret, job>>
    /\ UNCHANGED <<World, History>>

\* iterate_dir: the read_dir is exhausted, the call returns.
IterateReturn ==
    /\ pc = "walk"
    /\ Top = {}
    /\ stack' = Rest
    /\ pc' = IF Rest = <<>> THEN "report" ELSE "walk"
    /\ UNCHANGED <<World, History, faults, ret, log, job>>

\* iterate_dir: one turn of the loop over the entries, up to process_file.
VisitEntry ==
    /\ pc = "walk"
    /\ \E e \in Top, o \in Outcomes({"noreaddir"}) :
         LET frames == Rest \o <<Top \ {e}>>
         IN  /\ o = "noreaddir" => e \in Dirs
             /\ Fault(o)
             /\ IF e \in Dirs
                THEN LET r == iterate_dir(log, frames, e, o)
                     IN  /\ log' = r.log
                         /\ stack' = r.stack
                         /\ UNCHANGED <<pc, ret, job>>
                ELSE /\ stack' = frames
                     /\ IF ~fs[e].ex \/ fs[e].meta \in {"nometa", "nomtime"}
                        THEN /\ log' = mark_skipped(log, e, "Metadata")
                             /\ UNCHANGED <<pc, ret, job>>
                        ELSE IF fs[e].meta = "preepoch"
                        THEN /\ CallSave("panicked")
                             /\ UNCHANGED <<log, job>>
                        ELSE IF ~is_already_processed(log, e, fs[e].mtime) /\ filetype_check(e)
                        THEN /\ job' = [path |-> e, prev_size |-> fs[e].len, post_size |-> 0]
                             /\ pc' = "compress"
                             /\ UNCHANGED <<log, ret>>
                        ELSE UNCHANGED <<pc, ret, log, job>>
    /\ UNCHANGED <<World, History>>

\* process_file's Err arms: the skip is recorded and the caller goes on.
JobErr(reason) ==
    /\ log' = mark_skipped(log, job.path, reason)
    /\ failed' = failed \cup {job.path}
    /\ job' = NoJob
    /\ pc' = AfterJob
    /\ UNCHANGED <<mvs, ret>>

\* process_file: ffprobe, ffmpeg, the size of the output, and the spawn of mv.
\*   "nospawn": ffmpeg cannot be started;  "nooutput": ffmpeg ends without writing its
\*   output file;  "encfail": ffmpeg exits with an error after it wrote a part of the
\*   output (its exit status is never read);  "noopen" / "nometa": the output cannot
\*   be opened / its size not read;  "nomv": mv cannot be started.
\* The output appears in the directory the walker is reading: the open read_dir
\* yields the new entry later on (seen), or never does.
process_file ==
    /\ pc = "compress"
    /\ \E o \in Outcomes({"nospawn", "nooutput", "encfail", "noopen", "nometa", "nomv"}),
          size \in OutSizes, seen \in BOOLEAN :
         LET path == job.path
             dest == dest_path(path)
             fs1 == IF o = "nooutput"
                    THEN fs
                    ELSE [fs EXCEPT ![dest] = [ex |-> TRUE, mtime |-> clock, len |-> size,
                                               kind |-> IF o = "encfail" THEN "partial"
                                                        ELSE "x265",
                                               meta |-> "ok"]]
         IN  /\ Fault(o)
             /\ seen => (stack # <<>> /\ o \notin {"nospawn", "nooutput"} /\ dest \notin Top)
             /\ stack' = IF seen THEN Rest \o <<Top \cup {dest}>> ELSE stack
             /\ IF o = "nospawn"
                THEN \* compress: log.save(); panic!
                     /\ CallSave("panicked")
                     /\ UNCHANGED <<fs, mvs, log, job, launched, failed>>
                ELSE /\ launched' = launched \cup {path}
                     /\ fs' = fs1
                     /\ IF ~fs1[dest].ex \/ o = "noopen"
                        THEN JobErr("OpeningCompressedFile")
                        ELSE IF o = "nometa"
                        THEN JobErr("Metadata")
                        ELSE IF o = "nomv"
                        THEN JobErr("Override")
                        ELSE /\ mvs' = mvs \cup {path}
                             /\ job' = [job EXCEPT !.post_size = fs1[dest].len]
                             /\ pc' = "mark"
                             /\ UNCHANGED <<log, ret, failed>>
    /\ UNCHANGED <<Parser, root, disk, clock, run, marked, persisted, savefail, touched,
                   reported, prev>>

\* A slip of the Ok arm: the record is not saved, the caller goes on.
save_after_mark_left_out == pc' = AfterJob /\ UNCHANGED ret

\* The Ok arm's log.save(), on the way back to the caller.
save_after_mark == CallSave(AfterJob)

\* The caller's Ok arm: log.mark_processed(path, prev_size, post_size); log.save().
\*   "notime": SystemTime::now() is before the epoch.
MarkProcessed ==
    /\ pc = "mark"
    /\ \E o \in Outcomes({"notime"}) :
         /\ Fault(o)
         /\ IF o = "ok"
            THEN /\ log' = mark_processed(log, job.path, job.prev_size, job.post_size, clock)
                 /\ marked' = Insert(marked, job.path,
                                     [size_prev |-> job.prev_size, size_post |-> job.post_size])
                 /\ save_after_mark
            ELSE \* mark_processed: self.save(); panic!
                 /\ CallSave("panicked")
                 /\ UNCHANGED <<log, marked>>
    /\ job' = NoJob
    /\ UNCHANGED <<World, stack, launched, persisted, savefail, failed, touched, reported, prev>>

\* Log::save, first half: File::create truncates the file; its failure is ignored.
SaveCreate ==
    /\ pc = "save"
    /\ \E o \in Outcomes({"nocreate"}) :
         /\ Fault(o)
         /\ IF o = "ok"
            THEN /\ disk' = [st |-> "trunc", data |-> EmptyLog]
                 /\ pc' = "write"
                 /\ UNCHANGED <<ret, log, stack, job>>
            ELSE /\ Return
                 /\ UNCHANGED disk
         /\ savefail' = (savefail \/ o # "ok")
    /\ UNCHANGED <<Parser, root, fs, mvs, clock, run, launched, marked, persisted, failed, touched,
                   reported, prev>>

\* Log::save, second half: the write of the serialized log; its failure panics.
SaveWrite ==
    /\ pc = "write"
    /\ \E o \in Outcomes({"nowrite"}) :
         /\ Fault(o)
         /\ IF o = "ok"
            THEN /\ disk' = [st |-> "ok", data |-> Serialize(log)]
                 /\ persisted' = DOMAIN marked
                 /\ Return
            ELSE /\ Exit("panicked")
                 /\ UNCHANGED <<disk, persisted>>
         /\ savefail' = (savefail \/ o # "ok")
    /\ UNCHANGED <<Parser, root, fs, mvs, clock, run, launched, marked, failed, touched, reported,
                   prev>>

\* main: log.print_status(); log.save()  (main's early return prints and returns).
Report ==
    /\ pc \in {"report", "report_ret"}
    /\ reported' = [done |-> TRUE, prev |-> status_totals(log).prev,
                    post |-> status_totals(log).post]
    /\ IF pc = "report"
       THEN log' = print_status(log) /\ CallSave("done") /\ UNCHANGED <<stack, job>>
       ELSE Exit("done")
    /\ UNCHANGED <<World, faults, launched, marked, persisted, savefail, failed, touched, prev>>

\* ------------------------------------------------------------ environment
\* The process is terminated from outside.
Kill ==
    /\ pc \in Running
    /\ faults < MaxFaults
    /\ faults' = faults + 1
    /\ Exit("killed")
    /\ UNCHANGED <<World, History>>

\* The program is started again on the same root, once the children of the previous
\* invocation have ended.
Restart ==
    /\ Ended
    /\ run < MaxRuns
    /\ mvs = {}
    /\ run' = run + 1
    /\ pc' = "start"
    /\ prev' = [ended |-> pc, marked |-> DOMAIN marked, persisted |-> persisted,
                failed |-> failed, touched |-> touched, faults |-> faults]
    /\ launched' = {}
    /\ marked' = EmptyMap
    /\ persisted' = {}
    /\ savefail' = FALSE
    /\ failed' = {}
    /\ touched' = {}
    /\ reported' = NoReport
    /\ UNCHANGED <<Parser, root, fs, disk, mvs, clock, faults, ret, log, stack, job>>

\* Between two invocations time passes and a source file is modified from outside:
\* its modification time becomes now.
Touch ==
    /\ Ended
    /\ run < MaxRuns
    /\ clock < MaxClock
    /\ clock' = clock + 1
    /\ \E f \in TouchFiles :
         /\ fs[f].ex
         /\ fs' = [fs EXCEPT ![f].mtime = clock + 1, ![f].kind = "orig"]
         /\ touched' = touched \cup {f}
    /\ UNCHANGED <<Parser, root, disk, mvs, run, faults, pc, ret, log, stack, job, launched,
                   marked, persisted, savefail, failed, reported, prev>>

\* A spawned `mv <dest> <path>` ends: it renamed the output over the original, or failed.
MvFinish ==
    /\ \E p \in mvs, o \in Outcomes({"mvfail"}) :
         /\ Fault(o)
         /\ mvs' = mvs \ {p}
         /\ IF o = "ok" /\ fs[dest_path(p)].ex
            THEN fs' = [fs EXCEPT ![p] = fs[dest_path(p)], ![dest_path(p)] = Absent]
            ELSE UNCHANGED fs
    /\ UNCHANGED <<Parser, root, disk, clock, run, pc, ret, log, stack, job, History>>

Next ==
    \/ Main
    \/ IterateReturn
    \/ VisitEntry
    \/ process_file
    \/ MarkProcessed
    \/ SaveCreate
    \/ SaveWrite
    \/ Report
    \/ Kill
    \/ Restart
    \/ Touch
    \/ MvFinish

Spec == Init /\ [][Next]_vars

\* ------------------------------------------------------------ the progress parser
\* What ffmpeg writes to stderr, cut into the pieces time_regex tells apart:
\* "time=HH:MM:SS", "speed=D.D", and any other text.
MaxChunks == 6

NoTime == <<0, 0, 0>>
Stamps == {<<0, 0, 3>>, <<0, 0, 5>>, <<0, 0, 10>>}
Chunks ==
    {[k |-> "time", t |-> t] : t \in Stamps}
        \cup {[k |-> "speed", t |-> NoTime], [k |-> "text", t |-> NoTime]}

RECURSIVE SeqsUpTo(_, _)
SeqsUpTo(S, n) ==
    IF n = 0 THEN {<<>>}
    ELSE LET shorter == SeqsUpTo(S, n - 1)
         IN  shorter \cup {Append(q, x) : q \in shorter, x \in S}

\* time_regex = time=(\d+):(\d+):(\d+).*speed=(\d+).(\d+): a timestamp with a speed
\* somewhere after it.
time_regex_is_match(b) ==
    \E i \in 1..Len(b), j \in 1..Len(b) : i < j /\ b[i].k = "time" /\ b[j].k = "speed"

\* captures[1..3] of the leftmost match.
time_regex_captures(b) ==
    LET i == CHOOSE i \in 1..Len(b) :
                 /\ b[i].k = "time"
                 /\ \E j \in (i + 1)..Len(b) : b[j].k = "speed"
                 /\ \A h \in 1..(i - 1) : b[h].k # "time"
    IN  b[i].t

InitProgress ==
    /\ root = RootDir
    /\ fs = [p \in AllFiles |->
               IF p \in SrcFiles
               THEN [ex |-> TRUE, mtime |-> 1, len |-> OrigLen(p), kind |-> "orig", meta |-> "ok"]
               ELSE Absent]
    /\ disk = [st |-> "missing", data |-> EmptyLog]
    /\ mvs = {}
    /\ clock = 1
    /\ run = 1
    /\ faults = 0
    /\ pc = "stderr"
    /\ ret = "done"
    /\ log = EmptyLog
    /\ stack = <<>>
    /\ job = [path |-> FileA, prev_size |-> OrigLen(FileA), post_size |-> 0]
    /\ launched = {FileA}
    /\ marked = EmptyMap
    /\ persisted = {}
    /\ savefail = FALSE
    /\ failed = {}
    /\ touched = {}
    /\ reported = NoReport
    /\ prev = NoPrev
    /\ stream \in SeqsUpTo(Chunks, MaxChunks)
    /\ buffer = <<>>
    \* eprint!("Progress: 00:00:00")
    /\ display = <<NoTime>>

\* compress: one turn of the loop over stderr.
ReadStderr ==
    /\ pc = "stderr"
    /\ stream # <<>>
    /\ stream' = Tail(stream)
    /\ LET b == Append(buffer, Head(stream))
       IN  IF time_regex_is_match(b)
           THEN /\ display' = Append(display, time_regex_captures(b))
                /\ buffer' = <<>>
           ELSE /\ buffer' = b
                /\ UNCHANGED display
    /\ UNCHANGED <<root, fs, disk, mvs, clock, run, faults, pc, ret, log, stack, job, History>>

\* compress: stderr is at its end; eprintln!().
StderrEnd ==
    /\ pc = "stderr"
    /\ stream = <<>>
    /\ pc' = "eof"
    /\ UNCHANGED <<World, faults, ret, log, stack, job, History>>

NextProgress ==
    \/ ReadStderr
    \/ StderrEnd

SpecProgress == InitProgress /\ [][NextProgress]_vars

\* ------------------------------------------------------------ the claims
\* The walker examines the file entry e in this step.
Examined(e) ==
    /\ pc = "walk"
    /\ stack # <<>>
    /\ Len(stack') = Len(stack)
    /\ e \in Top
    /\ e \notin stack'[Len(stack')]

\* main examines its single-file root e in this step.
ExaminedRoot(e) ==
    /\ pc = "start"
    /\ pc' \notin {"start", "killed"}
    /\ root = e
    /\ root \notin Dirs

Readable(e) == fs[e].ex /\ fs[e].meta = "ok"

HandedOver(e) == pc' = "compress" /\ job'.path = e

\* No failure of the environment in this invocation so far, and no file modified
\* since the previous invocation began.
Undisturbed == run > 1 /\ faults = prev.faults /\ prev.touched = {}

\* C1: a process terminated after N of M files succeeded and were persisted, and
\* started again on the same unmodified tree, launches the encoder for none of
\* those N files, wherever the termination fell (stated for a directory root).
C1_ResumeSparesThePersisted ==
    (root \in Dirs /\ Undisturbed /\ prev.ended = "killed") =>
        launched \cap prev.persisted = {}

\* C2: after an invocation that completes normally, a second one over the same
\* unmodified tree launches the encoder for no file the first one marked processed
\* (stated for a directory root).
C2_SecondRunSparesTheProcessed ==
    (root \in Dirs /\ Undisturbed /\ prev.ended = "done") => launched \cap prev.marked = {}

\* C3: a path has a record of this invocation only once its replace step has
\* completed successfully: the mv has ended and the path holds the transcoded output.
C3_RecordOnlyAfterReplace ==
    pc \in Running => \A p \in DOMAIN marked : p \notin mvs /\ fs[p].kind = "x265"

\* C4: when a job fails (the output cannot be opened, its size cannot be read, or
\* the replace step fails), no record is written for the path (the durable map in
\* memory and the state file stay as they are), a skip entry is recorded, and the
\* next invocation hands the file to the transcoder again when it examines it.
\* A replace step has failed for p when its mv has ended and p still holds the original.
C4_FailedJobSkippedAndRetried ==
    /\ [][/\ (pc = "compress" /\ failed' # failed) =>
                /\ log'.shrunk_files = log.shrunk_files
                /\ marked' = marked
                /\ disk' = disk
                /\ job.path \in DOMAIN log'.skipped_files
           /\ \A p \in prev.failed :
                (Examined(p) \/ ExaminedRoot(p)) => HandedOver(p)]_vars
    /\ []((root \in Dirs /\ pc \in Running) =>
            \A p \in launched :
                (p \notin mvs /\ fs[p].kind = "orig") => p \notin DOMAIN marked)

\* The record of path e in log l is at least as new as the file.
Fresh(l, e) == e \in DOMAIN l.shrunk_files /\ l.shrunk_files[e].modified >= fs[e].mtime

\* C5: a file the walker examines goes to the transcoder iff it is eligible and the
\* durable map holds no record for it whose markedAt >= its modification time; so
\* does the root of a single-file invocation (which has no eligibility test).
C5_FreshnessGating ==
    [][\A e \in AllFiles :
         /\ (Examined(e) /\ Readable(e)) =>
              (HandedOver(e) <=> (filetype_check(e) /\ ~Fresh(log, e)))
         /\ (ExaminedRoot(e) /\ Readable(e)) => (HandedOver(e) <=> ~Fresh(log', e))]_vars

\* A file with a stored record, modified since, is with the transcoder again.
C5_Witness ==
    /\ pc = "compress"
    /\ job.path \in prev.touched
    /\ job.path \in DOMAIN log.shrunk_files
    /\ log.shrunk_files[job.path].modified < fs[job.path].mtime

\* C6: the encoder is launched only on files whose name passes the extension and
\* output-marker test, whether the root is a directory or a single file.
C6_OnlyEligibleLaunched == \A p \in launched : filetype_check(p)

\* C7: an entry whose metadata or modification time cannot be read or converted is
\* skipped and the walk goes on: with no other failure a directory run never aborts.
C7_UnreadableEntryNeverAborts ==
    (root \in Dirs /\ faults = 0) => (pc # "panicked" /\ ret # "panicked")

Less(a, b) ==
    \/ a[1] < b[1]
    \/ a[1] = b[1] /\ a[2] < b[2]
    \/ a[1] = b[1] /\ a[2] = b[2] /\ a[3] < b[3]

\* C8: the progress line is overwritten only by a timestamp greater than the one it
\* shows: the timestamps displayed are strictly increasing.
C8_ProgressMonotone == \A i \in 1..(Len(display) - 1) : Less(display[i], display[i + 1])

\* save() fails in this step: the state file cannot be created, or not written.
SaveFails == pc \in {"save", "write"} /\ faults' > faults /\ mvs' = mvs /\ pc' # "killed"

\* C9: when save() cannot create or write the state file the process aborts at once.
C9_PersistFailureAborts == [][SaveFails => pc' = "panicked"]_vars

\* C10: the totals print_status prints are the sums over the files transcoded in
\* this invocation, and over no others (stated for a directory root).
C10_TotalsOfThisRun ==
    (root \in Dirs /\ reported.done) =>
        /\ reported.prev = SumField(marked, DOMAIN marked, "size_prev")
        /\ reported.post = SumField(marked, DOMAIN marked, "size_post")

\* C11: the transient views are not persisted: the state file holds no skip entry,
\* and the ledger an invocation loads has an empty skip view and an empty
\* newly-added view, however the previous invocation ended.
C11_TransientViewsNotPersisted ==
    /\ disk.data.skipped_files = EmptyMap
    /\ pc = "start" =>
          /\ Log_new("ok").skipped_files = EmptyMap
          /\ Log_new("ok").added_files = EmptyMap

\* C12: every child a job starts has ended before the job returns: while the
\* invocation goes on to mark the file and to the next candidate no mv is running
\* (stated for a directory root).
C12_NoChildOutlivesItsJob == (root \in Dirs /\ pc \in Running) => mvs = {}

\* C13: when the process aborts after the flush of a fatal condition (encoder not
\* started, timestamp not determined), the state file holds a record for every file
\* that was processed successfully in this invocation.
C13_FlushBeforeAbort ==
    [][(ret = "panicked" /\ pc' = "panicked") =>
          \A p \in DOMAIN marked :
              disk'.st = "ok" /\ p \in DOMAIN disk'.data.shrunk_files]_vars

\* print_status runs in this step (main's last lines).
PrintsStatus == pc = "report" /\ reported'.done /\ ~reported.done

\* C14: print_status leaves added_files and skipped_files empty and shrunk_files as
\* it was.
C14_PrintStatusFrame ==
    [][PrintsStatus =>
          /\ log'.added_files = EmptyMap
          /\ log'.skipped_files = EmptyMap
          /\ log'.shrunk_files = log.shrunk_files]_vars

\* print_status has run on a log with a new record, a skip and a durable map.
C14_Witness ==
    /\ pc = "save"
    /\ ret = "done"
    /\ reported.prev > 0
    /\ failed # {}
    /\ log.shrunk_files # EmptyMap

\* main loads the ledger in this step.
Loads == pc = "start" /\ pc' \notin {"start", "killed"}

\* The state file could not be opened in this step (a read_dir that fails on the
\* root is the other failure of the step; it leaves a skip for the root).
OpenFailed == faults' > faults /\ ~(root \in Dirs /\ root \in DOMAIN log'.skipped_files)

\* C15: loading never ends the run: with the state file missing, not opened or not
\* parsed the run goes on with an empty durable map and empty transient views
\* (but for the skip main may record at once); otherwise the durable map is
\* exactly the stored one.
C15_LoadNeverFails ==
    [][Loads =>
          /\ pc' \in Running
          /\ (disk.st # "ok" \/ OpenFailed) =>
                /\ log'.shrunk_files = EmptyMap
                /\ log'.added_files = EmptyMap
                /\ DOMAIN log'.skipped_files \subseteq {root}
          /\ (disk.st = "ok" /\ ~OpenFailed) =>
                log'.shrunk_files = disk.data.shrunk_files]_vars

\* An invocation walks with an empty ledger because the state file, which held
\* records, was left truncated by the previous one.
C15_Witness ==
    /\ run > 1
    /\ pc = "walk"
    /\ disk.st = "trunc"
    /\ prev.persisted # {}
    /\ log.shrunk_files = EmptyMap

\* The working directory of the process, and the file a path names there: a path
\* that begins with "/" names itself, any other is taken from the working directory.
Cwd == <<"/", "w">>
Absolute(p) == IF p # <<>> /\ p[1] = "/" THEN p ELSE Cwd \o <<"/">> \o p

\* C16: the state file is compression_log.json directly under the root when the
\* root is a directory and directly under the directory that holds the root when
\* the root is a file, however the root is spelled.
C16_LedgerLocation ==
    Absolute(save_file(root)) =
        Log_path(IF root \in Dirs THEN Absolute(root) ELSE Parent(Absolute(root)))

\* C17: when the encoder is about to be launched, the state file holds the record of
\* every file that succeeded earlier in this invocation, provided no save() of the
\* invocation failed.
C17_PersistedBeforeNextLaunch ==
    (pc = "compress" /\ ~savefail) =>
        \A p \in DOMAIN marked :
            /\ disk.st = "ok"
            /\ p \in DOMAIN disk.data.shrunk_files
            /\ disk.data.shrunk_files[p] = log.shrunk_files[p]

\* The encoder is about to be launched after an earlier file of the invocation
\* succeeded and every save() went well.
C17_Witness == pc = "compress" /\ ~savefail /\ marked # EmptyMap

\* The encoder launched in this step does not exit successfully: it writes nothing,
\* or a part of its output.
EncoderFails ==
    /\ pc = "compress"
    /\ launched' # launched
    /\ faults' > faults
    /\ fs' = fs \/ fs'[dest_path(job.path)].kind = "partial"

\* C19: a job whose encoder did not exit successfully goes neither to the replace
\* step nor to the record: no mv is started for the file and it is not marked,
\* whether the encoder left a partial output or an output of an earlier job is
\* lying at the destination.
C19_FailedEncoderNeverReplaces ==
    [][EncoderFails => (pc' # "mark" /\ mvs' = mvs)]_vars

\* added_files of ledger l is a sub-map of its shrunk_files.
SubMap(l) ==
    \A p \in DOMAIN l.added_files :
        p \in DOMAIN l.shrunk_files /\ l.shrunk_files[p] = l.added_files[p]

\* C20: every entry of added_files is in shrunk_files with the same record, in the
\* ledger in memory and in the one the state file holds, whatever loads, marks,
\* skips, reports and saves came before.
C20_AddedWithinShrunk == SubMap(log) /\ SubMap(disk.data)

\* A file marked by the previous invocation is marked again by this one, and the
\* ledger carries its record in both maps.
C20_Witness ==
    /\ run > 1
    /\ \E p \in DOMAIN marked \cap prev.marked :
         p \in DOMAIN log.added_files /\ p \in DOMAIN disk.data.added_files

\* f is an entry of the tree under the root.
InTree(f) ==
    /\ Len(f) > Len(root) + 1
    /\ SubSeq(f, 1, Len(root)) = root
    /\ f[Len(root) + 1] = "/"

\* C18: with every directory readable and no other failure of the environment, the
\* walk is never cut short, hands no file to the transcoder twice, and when it
\* returns every file of the tree has been examined: each was handed over, or
\* skipped as unreadable, or is not eligible, or has an up-to-date record; also
\* when the outputs of the jobs show up in the directories being read.
C18_WalkCoversEveryEntryOnce ==
    /\ [][\A e \in AllFiles : HandedOver(e) => e \notin launched]_vars
    /\ []((root \in Dirs /\ faults = prev.faults) =>
            /\ pc # "panicked" /\ ret # "panicked"
            /\ pc = "report" =>
                  \A f \in AllFiles :
                      (InTree(f) /\ fs[f].ex) =>
                          \/ f \in launched
                          \/ f \in DOMAIN log.skipped_files
                          \/ ~filetype_check(f)
                          \/ Fresh(log, f))

====
